---- MODULE Spec2Model ----
(***************************************************************************)
(* Prediction-market arbitrage dashboard (Kalshi vs Polymarket).           *)
(*                                                                         *)
(* Two scripts are modelled:                                               *)
(*   prediction_arbitrage_dashboard.py    exact title matcher, polling     *)
(*                                        loop (while True ... sleep 30)   *)
(*   prediction_arbitrage_dashboard-2.py  embedding matcher, one pass      *)
(*                                                                         *)
(* Numbers.  Python floats are modelled in fixed point: a price, a total   *)
(* and a profit are integers counting 1/10000 of a dollar, a similarity    *)
(* is an integer counting 1/10000.  round(x, 3) is then rounding to a      *)
(* multiple of 10 and round(x, 2) to a multiple of 100.  On an exact       *)
(* decimal tie Python's round() goes the way the binary value of the       *)
(* float lies (round(0.6665, 3) = 0.666, round(0.005, 2) = 0.01), so a tie *)
(* is modelled as a choice between both neighbours.                        *)
(*                                                                         *)
(* Optional values (a missing dict key, None, a value float() rejects)     *)
(* are modelled as sequences: <<>> is absent, <<x>> is present.            *)
(***************************************************************************)
EXTENDS Integers, Sequences, FiniteSets, TLC

VARIABLES
    pc,             \* position of the script
    stake_amount,   \* st.sidebar.number_input(...)
    kalshi_data,    \* list returned by fetch_kalshi_markets()
    poly_data,      \* list returned by fetch_polymarket_markets()
    matches,        \* list returned by match_markets / being built by match_markets_ai
    pair_idx,       \* number of pairs of `matches` the evaluation loop has consumed
    rows,           \* rows appended so far
    placeholder,    \* what the display shows
    shown_before,   \* history: a dataframe was displayed in an earlier cycle
    k_idx,          \* match_markets_ai: index of k in kalshi (outer loop)
    p_idx,          \* match_markets_ai: number of polymarkets compared with k
    k_embed,        \* match_markets_ai: embedding of the current k_title
    embed_first,    \* history: per title, the vector its first get_embedding call returned
    embed_stable,   \* history: every title got the same vector on each of its calls
    embed_failures  \* number of get_embedding calls that raised

vars == <<pc, stake_amount, kalshi_data, poly_data, matches, pair_idx, rows,
          placeholder, shown_before, k_idx, p_idx, k_embed, embed_first,
          embed_stable, embed_failures>>

aiVars == <<k_idx, p_idx, k_embed, embed_first, embed_stable, embed_failures>>

----------------------------------------------------------------------------
(* Bounds of the model *)

MaxMarkets == 2         \* longest market list a fetch returns
MaxEmbedFailures == 2   \* most get_embedding calls that raise in one pass

----------------------------------------------------------------------------
(* Program constants *)

PriceScale == 10000     \* fixed point: 1.0 dollar; the no-arbitrage threshold `total < 1.0`
MilliStep == 10         \* round(x, 3): one thousandth in fixed-point units
CentStep == 100         \* round(x, 2): one hundredth in fixed-point units
Threshold == 9000       \* fixed point: the similarity threshold `sim > 0.90`
MinStake == 1           \* number_input(min_value=1)
DefaultStake == 100     \* number_input(value=100)

None == <<>>
Some(x) == <<x>>

Min(S) == CHOOSE x \in S : \A y \in S : x <= y
Max(S) == CHOOSE x \in S : \A y \in S : x >= y

SeqsUpTo(S, n) == UNION {[1..k -> S] : k \in 0..n}

----------------------------------------------------------------------------
(* Strings are sequences of one-character strings. *)

Lower(c) ==
    CASE c = "R" -> "r"
      [] c = "A" -> "a"
      [] c = "I" -> "i"
      [] c = "N" -> "n"
      [] c = "O" -> "o"
      [] c = "S" -> "s"
      [] c = "W" -> "w"
      [] c = "Y" -> "y"
      [] c = "E" -> "e"
      [] OTHER -> c

\* str.lower()
LowerStr(s) == [k \in 1..Len(s) |-> Lower(s[k])]

\* str.replace(c, "")
Remove(s, c) == SelectSeq(s, LAMBDA x : x # c)

IsSpace(c) == c \in {" ", "\t", "\n"}

\* str.strip()
Strip(s) ==
    LET keep == {k \in 1..Len(s) : ~IsSpace(s[k])}
    IN  IF keep = {} THEN <<>> ELSE SubSeq(s, Min(keep), Max(keep))

\* normalize_title
NormalizeTitle(title) ==
    Strip(Remove(Remove(Remove(LowerStr(title), "?"), ","), " "))

----------------------------------------------------------------------------
(* Rounding *)

\* round(x, ndigits) with 10^-ndigits = step; tieUp resolves an exact tie
Round(x, step, tieUp) ==
    LET r  == x % step
        lo == x - r
    IN  IF 2 * r < step THEN lo
        ELSE IF 2 * r > step THEN lo + step
        ELSE IF tieUp THEN lo + step ELSE lo

----------------------------------------------------------------------------
(* Price extraction *)

\* get_kalshi_yes_bid: market['order_books']['yes']['bids'][0]['price'].
\* market.bids is None when any of order_books / yes / bids is missing;
\* a bid is None when it has no price or float() rejects it.
GetKalshiYesBid(market) ==
    IF market.bids = None THEN None
    ELSE IF market.bids[1] = <<>> THEN None
    ELSE market.bids[1][1]

NoName == <<"n", "o">>

RECURSIVE ScanOutcomes(_, _)
ScanOutcomes(outcomes, k) ==
    IF k > Len(outcomes) THEN None
    ELSE IF outcomes[k].name = None THEN None
    ELSE IF LowerStr(outcomes[k].name[1]) = NoName THEN outcomes[k].price
    ELSE ScanOutcomes(outcomes, k + 1)

\* get_polymarket_no_price
GetPolymarketNoPrice(market) ==
    IF market.outcomes = None THEN None
    ELSE ScanOutcomes(market.outcomes[1], 1)

----------------------------------------------------------------------------
(* Evaluation of one pair *)

IsArbInclusive(total) == total <= PriceScale

\* is_arb = total < 1.0
IsArb(total) == total < PriceScale

CalculateProfitSwapped(total_cost, stake, tieUp) ==
    Round((total_cost * stake) - (stake * PriceScale), CentStep, tieUp)

\* calculate_profit
CalculateProfit(total_cost, stake, tieUp) ==
    LET payout == stake * PriceScale
        profit == payout - (total_cost * stake)
    IN  Round(profit, CentStep, tieUp)

SkipUnprofitable(k_price, p_price) ==
    \/ k_price = None
    \/ p_price = None
    \/ k_price[1] + p_price[1] >= PriceScale

\* if k_price is None or p_price is None: continue
Skip(k_price, p_price) == k_price = None \/ p_price = None

\* x lies exactly between two multiples of step
IsTie(x, step) == 2 * (x % step) = step

\* the ways the four round() calls of one row may resolve: a call whose
\* argument is no tie has one result, listed under FALSE
TieChoices(k_price, p_price, stake) ==
    LET total  == k_price + p_price
        profit == stake * PriceScale - total * stake
    IN  {t \in [{"k", "p", "total", "profit"} -> BOOLEAN] :
            /\ t["k"] => IsTie(k_price, MilliStep)
            /\ t["p"] => IsTie(p_price, MilliStep)
            /\ t["total"] => IsTie(total, MilliStep)
            /\ t["profit"] => IsTie(profit, CentStep)}

\* The dict appended to rows.  `total` is the loop's local of the same name,
\* kept beside the row as history; it is not a displayed column.
MakeRow(pair, k_price, p_price, stake, tie) ==
    LET total  == k_price + p_price
        is_arb == IsArb(total)
        profit == IF is_arb THEN Some(CalculateProfit(total, stake, tie["profit"]))
                  ELSE None
    IN  [Market     |-> pair.name,
         Similarity |-> pair.similarity,
         KalshiYes  |-> Round(k_price, MilliStep, tie["k"]),
         PolyNo     |-> Round(p_price, MilliStep, tie["p"]),
         TotalCost  |-> Round(total, MilliStep, tie["total"]),
         Arbitrage  |-> is_arb,
         Profit     |-> IF is_arb THEN profit ELSE None,
         total      |-> total]

----------------------------------------------------------------------------
(* Exact matcher *)

KalshiLookupFirst(kalshi, key) ==
    LET hits == {k \in 1..Len(kalshi) : NormalizeTitle(kalshi[k].title[1]) = key}
    IN  IF hits = {} THEN None ELSE Some(kalshi[Min(hits)])

\* kalshi_lookup[key]: the dict comprehension keeps the last market per key
KalshiLookup(kalshi, key) ==
    LET hits == {k \in 1..Len(kalshi) : NormalizeTitle(kalshi[k].title[1]) = key}
    IN  IF hits = {} THEN None ELSE Some(kalshi[Max(hits)])

RECURSIVE MatchFrom(_, _, _)
MatchFrom(kalshi, polymarkets, j) ==
    IF j > Len(polymarkets) THEN <<>>
    ELSE LET pm         == polymarkets[j]
             norm_title == NormalizeTitle(pm.title[1])
             hit        == KalshiLookup(kalshi, norm_title)
         IN  (IF hit # None
              THEN <<[name       |-> pm.title[1],
                      kalshi     |-> hit[1],
                      polymarket |-> pm,
                      similarity |-> None]>>
              ELSE <<>>)
             \o MatchFrom(kalshi, polymarkets, j + 1)

MatchMarketsCross(kalshi, polymarkets) ==
    LET hit(k, j) == NormalizeTitle(kalshi[k].title[1]) = NormalizeTitle(polymarkets[j].title[1])
        pairs(j)  == [k \in 1..Len(kalshi) |->
                         [name       |-> polymarkets[j].title[1],
                          kalshi     |-> kalshi[k],
                          polymarket |-> polymarkets[j],
                          similarity |-> None]]
        F[j \in 0..Len(polymarkets)] ==
            IF j = 0 THEN <<>>
            ELSE F[j - 1] \o SelectSeq(pairs(j), LAMBDA m :
                     NormalizeTitle(m.kalshi.title[1]) = NormalizeTitle(m.polymarket.title[1]))
    IN  F[Len(polymarkets)]

\* match_markets
MatchMarkets(kalshi, polymarkets) == MatchFrom(kalshi, polymarkets, 1)

\* m['title'] / pm['title'] raise KeyError (title missing) or normalize_title
\* raises AttributeError (title null)
MatchMarketsRaises(kalshi, polymarkets) ==
    \/ \E k \in 1..Len(kalshi) : kalshi[k].title = None
    \/ \E j \in 1..Len(polymarkets) : polymarkets[j].title = None

----------------------------------------------------------------------------
(* Result assembly *)

RemoveOne(rs, r) ==
    LET k == Min({n \in 1..Len(rs) : rs[n] = r})
    IN  SubSeq(rs, 1, k - 1) \o SubSeq(rs, k + 1, Len(rs))

SortValuesSkipped(rs) == {rs}

\* df.sort_values(by='Total Cost'): the default kind is quicksort, which is
\* not stable, so rows with equal Total Cost may come out in any order.
RECURSIVE SortValues(_)
SortValues(rs) ==
    IF rs = <<>> THEN {<<>>}
    ELSE LET m      == Min({rs[n].TotalCost : n \in 1..Len(rs)})
             firsts == {rs[n] : n \in {n \in 1..Len(rs) : rs[n].TotalCost = m}}
         IN  UNION {{<<r>> \o t : t \in SortValues(RemoveOne(rs, r))} : r \in firsts}

RowsKept(old) == old

\* rows = [] at the top of the pass
RowsAtStart(old) == <<>>

Dataframe(sorted) == [kind |-> "dataframe", rows |-> sorted]
Message == [kind |-> "message", rows |-> <<>>]
Empty == [kind |-> "empty", rows |-> <<>>]

----------------------------------------------------------------------------
(* Inputs: the markets the two APIs may return *)

TRainQ     == <<"R", "a", "i", "n", "?">>
TRainLower == <<"r", "a", "i", "n">>
TRainUpper == <<"R", "A", "I", "N">>
TRainComma == <<"\t", "r", "a", " ", "i", "n", ",">>
TSnow      == <<"S", "n", "o", "w">>
TSnowQ     == <<"s", "n", "o", "w", "?">>

Yes == <<"Y", "e", "s">>
No  == <<"N", "o">>
NO  == <<"N", "O">>

KalshiMarket(title, bids) == [title |-> title, bids |-> bids]

PolyMarket(question, title, slug, outcomes) ==
    [question |-> question, title |-> title, slug |-> slug, outcomes |-> outcomes]

Outcome(name, price) == [name |-> name, price |-> price]

K_RainQ   == KalshiMarket(Some(TRainQ), Some(<<Some(3334)>>))
K_Rain    == KalshiMarket(Some(TRainLower), Some(<<Some(6670), Some(1000)>>))
K_Snow    == KalshiMarket(Some(TSnow), Some(<<None, Some(2000)>>))
K_SnowQ   == KalshiMarket(Some(TSnowQ), Some(<<Some(2000)>>))
K_NoTitle == KalshiMarket(None, None)

P_RainUpper == PolyMarket(None, Some(TRainUpper), None,
                          Some(<<Outcome(Some(Yes), Some(6600)), Outcome(Some(No), Some(3330))>>))
P_RainComma == PolyMarket(None, Some(TRainComma), None,
                          Some(<<Outcome(Some(NO), Some(3327))>>))
P_Snow      == PolyMarket(None, Some(TSnow), None,
                          Some(<<Outcome(Some(No), Some(7000))>>))
P_RainNoNo  == PolyMarket(None, Some(TRainLower), None,
                          Some(<<Outcome(Some(Yes), Some(5000)), Outcome(None, Some(2000)),
                                 Outcome(Some(No), Some(1000))>>))
P_Question  == PolyMarket(Some(TRainQ), None, None,
                          Some(<<Outcome(Some(No), Some(5000))>>))

KalshiPool == {K_RainQ, K_Rain, K_Snow, K_SnowQ, K_NoTitle}
PolyPool   == {P_RainUpper, P_RainComma, P_Snow, P_RainNoNo, P_Question}

LoopKalshiPool == {K_RainQ, K_Rain}
LoopPolyPool   == {P_RainUpper, P_Snow}

Stakes == {MinStake, DefaultStake}

\* the HTTP response of a fetch: None when requests.get / r.json() / ['markets'] raises
Responses(pool) == {None} \cup {Some(l) : l \in SeqsUpTo(pool, MaxMarkets)}

\* fetch_kalshi_markets / fetch_polymarket_markets: [] on any exception
FetchMarkets(resp) == IF resp = None THEN <<>> ELSE resp[1]

----------------------------------------------------------------------------
(* The polling script: prediction_arbitrage_dashboard.py *)

Init ==
    /\ pc = "fetch"
    /\ stake_amount \in Stakes
    /\ kalshi_data = <<>>
    /\ poly_data = <<>>
    /\ matches = <<>>
    /\ pair_idx = 0
    /\ rows = <<>>
    /\ placeholder = Empty
    /\ shown_before = FALSE
    /\ k_idx = 0
    /\ p_idx = 0
    /\ k_embed = "zero"
    /\ embed_first = <<>>
    /\ embed_stable = TRUE
    /\ embed_failures = 0

\* kalshi_data = fetch_kalshi_markets(); poly_data = fetch_polymarket_markets()
Fetch(kpool, ppool) ==
    /\ pc = "fetch"
    /\ \E kresp \in Responses(kpool), presp \in Responses(ppool) :
          /\ kalshi_data' = FetchMarkets(kresp)
          /\ poly_data' = FetchMarkets(presp)
    /\ pc' = "match"
    /\ UNCHANGED <<stake_amount, matches, pair_idx, rows, placeholder, shown_before>>
    /\ UNCHANGED aiVars

FetchCycle == Fetch(KalshiPool, PolyPool)

FetchLoop == Fetch(LoopKalshiPool, LoopPolyPool)

\* matches = match_markets(kalshi_data, poly_data); rows = []
\* An exception in match_markets is caught nowhere: the script run ends.
Match ==
    /\ pc = "match"
    /\ IF MatchMarketsRaises(kalshi_data, poly_data)
       THEN /\ pc' = "aborted"
            /\ UNCHANGED <<matches, pair_idx, rows>>
       ELSE /\ matches' = MatchMarkets(kalshi_data, poly_data)
            /\ rows' = RowsAtStart(rows)
            /\ pair_idx' = 0
            /\ pc' = "evaluate"
    /\ UNCHANGED <<stake_amount, kalshi_data, poly_data, placeholder, shown_before>>
    /\ UNCHANGED aiVars

\* one iteration of `for pair in matches`
EvaluatePair ==
    /\ pc = "evaluate"
    /\ pair_idx < Len(matches)
    /\ LET pair    == matches[pair_idx + 1]
           k_price == GetKalshiYesBid(pair.kalshi)
           p_price == GetPolymarketNoPrice(pair.polymarket)
       IN  IF Skip(k_price, p_price)
           THEN rows' = rows
           ELSE \E tie \in TieChoices(k_price[1], p_price[1], stake_amount) :
                   rows' = Append(rows, MakeRow(pair, k_price[1], p_price[1],
                                                stake_amount, tie))
    /\ pair_idx' = pair_idx + 1
    /\ UNCHANGED <<pc, stake_amount, kalshi_data, poly_data, matches, placeholder,
                   shown_before>>
    /\ UNCHANGED aiVars

\* df = sorted DataFrame or None; the placeholder shows the dataframe or the message
Render(next_pc) ==
    /\ pc = "evaluate"
    /\ pair_idx = Len(matches)
    /\ IF rows # <<>>
       THEN \E sorted \in SortValues(rows) : placeholder' = Dataframe(sorted)
       ELSE placeholder' = Message
    /\ pc' = next_pc
    /\ UNCHANGED <<stake_amount, kalshi_data, poly_data, matches, pair_idx, rows,
                   shown_before>>
    /\ UNCHANGED aiVars

Display == Render("sleep")

\* time.sleep(30), then the next iteration of `while True`
Sleep ==
    /\ pc = "sleep"
    /\ pc' = "fetch"
    /\ shown_before' = (shown_before \/ placeholder.kind = "dataframe")
    /\ UNCHANGED <<stake_amount, kalshi_data, poly_data, matches, pair_idx, rows,
                   placeholder>>
    /\ UNCHANGED aiVars

Next == FetchLoop \/ Match \/ EvaluatePair \/ Display \/ Sleep

Spec == Init /\ [][Next]_vars

\* One iteration of the loop body, over the wider pool of markets
NextCycle == FetchCycle \/ Match \/ EvaluatePair \/ Display

SpecCycle == Init /\ [][NextCycle]_vars

----------------------------------------------------------------------------
(* The evaluation step alone: one matched pair over a grid of prices *)

PriceGrid == {0, 3334, 3335, 4000, 4950, 5000, 5500, 5996, 6000, 9999}

EvalKalshi(k) == KalshiMarket(Some(TRainQ), Some(<<Some(k)>>))
EvalPoly(p) == PolyMarket(None, Some(TRainLower), None, Some(<<Outcome(Some(No), Some(p))>>))

InitEval ==
    /\ pc = "evaluate"
    /\ stake_amount \in Stakes
    /\ \E k \in PriceGrid, p \in PriceGrid :
          /\ kalshi_data = <<EvalKalshi(k)>>
          /\ poly_data = <<EvalPoly(p)>>
    /\ matches = MatchMarkets(kalshi_data, poly_data)
    /\ pair_idx = 0
    /\ rows = <<>>
    /\ placeholder = Empty
    /\ shown_before = FALSE
    /\ k_idx = 0
    /\ p_idx = 0
    /\ k_embed = "zero"
    /\ embed_first = <<>>
    /\ embed_stable = TRUE
    /\ embed_failures = 0

NextEval == EvaluatePair \/ Display

SpecEval == InitEval /\ [][NextEval]_vars

----------------------------------------------------------------------------
(* Reading the state: which pair a row came from *)

Usable(pair) ==
    /\ GetKalshiYesBid(pair.kalshi) # None
    /\ GetPolymarketNoPrice(pair.polymarket) # None

\* indices of the pairs, among the first n, whose two extractions are non-null
UsableIdx(n) == {m \in 1..n : Usable(matches[m])}

NthOf(S, n) == CHOOSE x \in S : Cardinality({y \in S : y <= x}) = n

\* the pair the m-th appended row was built from
PairOfRow(m) == matches[NthOf(UsableIdx(pair_idx), m)]
PriceA(m) == GetKalshiYesBid(PairOfRow(m).kalshi)[1]
PriceB(m) == GetPolymarketNoPrice(PairOfRow(m).polymarket)[1]

RowsAligned == Len(rows) = Cardinality(UsableIdx(pair_idx))

\* x is v rounded to a multiple of step (a tie may go either way)
IsRounded(x, v, step) ==
    /\ x % step = 0
    /\ 2 * (x - v) <= step
    /\ 2 * (v - x) <= step

Count(s, r) == Cardinality({n \in 1..Len(s) : s[n] = r})

IsPermutation(s, t) ==
    /\ Len(s) = Len(t)
    /\ \A n \in 1..Len(s) : Count(s, s[n]) = Count(t, s[n])

Evaluated == pc \in {"evaluate", "sleep", "done"}

----------------------------------------------------------------------------
(* C1 *)

\* C1 (as stated): every row built from two non-null prices has
\* total = priceA + priceB, its flag set exactly when that total < 1.0, and
\* profit = round(stake - total*stake, 2) when flagged, absent otherwise.
C1_RowTotalIsSum ==
    (Evaluated /\ RowsAligned) =>
        \A m \in 1..Len(rows) :
            LET r == rows[m]
                s == PriceA(m) + PriceB(m)
            IN  /\ r.TotalCost = s
                /\ r.Arbitrage <=> (r.TotalCost < PriceScale)
                /\ r.Arbitrage => /\ r.Profit # None
                                  /\ IsRounded(r.Profit[1],
                                               stake_amount * PriceScale - r.TotalCost * stake_amount,
                                               CentStep)
                /\ ~r.Arbitrage => r.Profit = None

\* C1 (amended): the row's Total Cost is priceA + priceB rounded to 3
\* decimals; the flag is set exactly when the unrounded sum is < 1.0; the
\* profit is round(stake - sum*stake, 2) of the unrounded sum when flagged and
\* absent otherwise.  (0.40, 0.55, 100) gives 0.95, flagged, 5.00 and
\* (0.60, 0.55) gives 1.15, not flagged, no profit.
C1_Evaluate ==
    Evaluated =>
        /\ RowsAligned
        /\ \A m \in 1..Len(rows) :
            LET r == rows[m]
                a == PriceA(m)
                b == PriceB(m)
                s == a + b
            IN  /\ IsRounded(r.TotalCost, s, MilliStep)
                /\ r.Arbitrage <=> (s < PriceScale)
                /\ r.Arbitrage => /\ r.Profit # None
                                  /\ IsRounded(r.Profit[1],
                                               stake_amount * PriceScale - s * stake_amount,
                                               CentStep)
                /\ ~r.Arbitrage => r.Profit = None
                /\ (a = 4000 /\ b = 5500 /\ stake_amount = 100) =>
                      (r.TotalCost = 9500 /\ r.Arbitrage /\ r.Profit = Some(50000))
                /\ (a = 6000 /\ b = 5500) =>
                      (r.TotalCost = 11500 /\ ~r.Arbitrage /\ r.Profit = None)

C1_Witness ==
    /\ pc = "sleep"
    /\ Len(rows) = 1
    /\ rows[1].Arbitrage
    /\ rows[1].total % MilliStep # 0
    /\ rows[1].TotalCost # rows[1].total

----------------------------------------------------------------------------
(* C10 *)

\* C10 (as stated): every flagged row shows a strictly positive profit.
C10_ProfitPositive ==
    Evaluated => \A m \in 1..Len(rows) :
        rows[m].Arbitrage => (rows[m].Profit # None /\ rows[m].Profit[1] > 0)

\* C10 (amended): every flagged row shows a profit that is >= 0, and > 0
\* whenever stake - total*stake exceeds half a cent; the rounding to 2
\* decimals turns a smaller gain into 0.00.
C10_ProfitNonNegative ==
    Evaluated => \A m \in 1..Len(rows) :
        rows[m].Arbitrage =>
            /\ rows[m].Profit # None
            /\ rows[m].Profit[1] >= 0
            /\ (2 * (stake_amount * PriceScale - rows[m].total * stake_amount) > CentStep)
                  => rows[m].Profit[1] > 0

C10_Witness ==
    /\ pc = "sleep"
    /\ Len(rows) = 1
    /\ rows[1].Arbitrage
    /\ rows[1].Profit = Some(0)
    /\ placeholder.kind = "dataframe"

----------------------------------------------------------------------------
(* C2 *)

Matched == pc \in {"evaluate", "sleep"}

\* C2 (as stated): the exact matcher returns at most min(|A|, |B|) pairs.
C2_AtMostMin ==
    Matched => /\ Len(matches) <= Len(kalshi_data)
               /\ Len(matches) <= Len(poly_data)

\* C2 (amended): the exact matcher returns at most |B| pairs, one per
\* source-B market at most; several source-B markets may pair with the same
\* source-A market, so the count can exceed |A|.
C2_AtMostLenB ==
    Matched => Len(matches) <= Len(poly_data)

C2_Witness ==
    /\ pc = "evaluate"
    /\ Len(kalshi_data) = 1
    /\ Len(poly_data) = 2
    /\ Len(matches) = 2
    /\ matches[1].kalshi = matches[2].kalshi
    /\ matches[1].polymarket # matches[2].polymarket

----------------------------------------------------------------------------
(* C3 *)

SameTitle(a, b) == NormalizeTitle(a.title[1]) = NormalizeTitle(b.title[1])

\* indices of the source-B markets some source-A market shares a normalized title with
HitIdx == {j \in 1..Len(poly_data) :
              \E k \in 1..Len(kalshi_data) : SameTitle(kalshi_data[k], poly_data[j])}

\* C3: a pair is emitted for a source-B market b iff some source-A market has
\* b's normalized title; pairs come in source-B order, the two titles of a
\* pair normalize equal, and the pair carries the last source-A market with
\* that normalized title.
C3_ExactMatcher ==
    Matched =>
        /\ Len(matches) = Cardinality(HitIdx)
        /\ \A m \in 1..Len(matches) :
              LET j    == NthOf(HitIdx, m)
                  last == Max({k \in 1..Len(kalshi_data) :
                                  SameTitle(kalshi_data[k], poly_data[j])})
              IN  /\ matches[m].polymarket = poly_data[j]
                  /\ matches[m].name = poly_data[j].title[1]
                  /\ matches[m].kalshi = kalshi_data[last]
                  /\ SameTitle(matches[m].kalshi, matches[m].polymarket)

C3_Witness ==
    /\ pc = "evaluate"
    /\ Len(kalshi_data) = 2
    /\ kalshi_data[1] # kalshi_data[2]
    /\ SameTitle(kalshi_data[1], kalshi_data[2])
    /\ Len(poly_data) = 2
    /\ Len(matches) = 1
    /\ matches[1].polymarket = poly_data[2]
    /\ matches[1].kalshi = kalshi_data[2]
    /\ matches[1].kalshi.title # matches[1].polymarket.title

----------------------------------------------------------------------------
(* C5 *)

\* C5: the rows correspond one-to-one, in order, to the matched pairs whose
\* two extractions are both non-null; a pair with a null extraction adds no
\* row and ends nothing (the script only ever aborts before the first pair is
\* evaluated); every row, flagged or not, is in the displayed dataframe.
C5_RowsAreUsablePairs ==
    /\ Evaluated =>
          /\ RowsAligned
          /\ \A m \in 1..Len(rows) :
                /\ rows[m].Market = PairOfRow(m).name
                /\ rows[m].total = PriceA(m) + PriceB(m)
                /\ IsRounded(rows[m].KalshiYes, PriceA(m), MilliStep)
                /\ IsRounded(rows[m].PolyNo, PriceB(m), MilliStep)
    /\ pc = "sleep" =>
          /\ IsPermutation(placeholder.rows, rows)
          /\ placeholder.kind = (IF rows = <<>> THEN "message" ELSE "dataframe")
    /\ pc = "aborted" => (pair_idx = 0 /\ rows = <<>>)

C5_Witness ==
    /\ pc = "sleep"
    /\ Len(matches) = 2
    /\ ~Usable(matches[1])
    /\ Usable(matches[2])
    /\ Len(placeholder.rows) = 1
    /\ ~placeholder.rows[1].Arbitrage

----------------------------------------------------------------------------
(* C6 *)

Shown == placeholder.rows

\* C6 (as stated): of two rows shown in one cycle the earlier has a total
\* priceA + priceB no greater than the later.
C6_SortedBySum ==
    pc = "sleep" =>
        \A m, n \in 1..Len(Shown) : m < n => Shown[m].total <= Shown[n].total

\* C6 (amended): the rows shown are sorted ascending by their Total Cost
\* column, the sum rounded to 3 decimals; two rows whose sums round to the
\* same Total Cost may appear in either order of their unrounded sums, which
\* then differ by at most 0.001.
C6_SortedByTotalCost ==
    pc = "sleep" =>
        \A m, n \in 1..Len(Shown) : m < n =>
            /\ Shown[m].TotalCost <= Shown[n].TotalCost
            /\ Shown[m].total <= Shown[n].total + MilliStep

C6_Witness ==
    /\ pc = "sleep"
    /\ Len(Shown) = 2
    /\ Shown # rows
    /\ Shown[1].TotalCost < Shown[2].TotalCost

----------------------------------------------------------------------------
(* C7 *)

\* C7: no input aborts a cycle; the match and evaluation stages always run
\* to completion.
C7_NeverAborts == pc # "aborted"

----------------------------------------------------------------------------
(* C8 *)

\* C8: what a cycle displays is determined by the two lists fetched in that
\* cycle and the stake: the displayed rows are exactly those of the usable
\* pairs matched from the current lists, none carried over, and a cycle
\* whose fetch yields no data displays the empty result whatever the
\* previous cycle displayed.
C8_CycleIsFresh ==
    pc = "sleep" =>
        /\ pair_idx = Len(matches)
        /\ Len(matches) = Cardinality(HitIdx)
        /\ \A m \in 1..Len(matches) : matches[m].polymarket = poly_data[NthOf(HitIdx, m)]
        /\ Len(Shown) = Cardinality(UsableIdx(Len(matches)))
        /\ \A n \in 1..Len(Shown) :
              \E m \in UsableIdx(Len(matches)) :
                 LET a == GetKalshiYesBid(matches[m].kalshi)[1]
                     b == GetPolymarketNoPrice(matches[m].polymarket)[1]
                 IN  /\ Shown[n].Market = matches[m].name
                     /\ Shown[n].total = a + b
                     /\ Shown[n].Arbitrage <=> (a + b < PriceScale)
                     /\ Shown[n].Arbitrage =>
                           IsRounded(Shown[n].Profit[1],
                                     stake_amount * PriceScale - (a + b) * stake_amount,
                                     CentStep)
        /\ (kalshi_data = <<>> \/ poly_data = <<>>) => placeholder = Message

C8_Witness ==
    /\ pc = "sleep"
    /\ shown_before
    /\ kalshi_data = <<>>
    /\ poly_data # <<>>
    /\ placeholder = Message

----------------------------------------------------------------------------
(* The embedding script: prediction_arbitrage_dashboard-2.py *)

Unknown == <<"u", "n", "k", "n", "o", "w", "n">>

\* Python truthiness of an optional string: None and "" are falsy
Truthy(opt) == opt # None /\ opt[1] # <<>>

\* extract_polymarket_title
ExtractPolymarketTitle(market) ==
    IF Truthy(market.question) THEN market.question[1]
    ELSE IF Truthy(market.title) THEN market.title[1]
    ELSE IF Truthy(market.slug) THEN market.slug[1]
    ELSE Unknown

\* The embedding provider, an opaque function text -> vector.  Vectors are
\* named; "zero" is np.zeros(1536).
Embedding(text) ==
    CASE text = TRainQ     -> "v1"
      [] text = TRainLower -> "v2"
      [] text = TRainUpper -> "v3"
      [] text = Unknown    -> "v4"
      [] OTHER             -> "v5"

\* cosine of the angle between two named vectors, in 1/10000
Cosine(u, v) ==
    CASE u = v               -> 10000
      [] {u, v} = {"v1", "v2"} -> 9003
      [] {u, v} = {"v1", "v3"} -> 9000
      [] {u, v} = {"v2", "v3"} -> 9500
      [] "v4" \in {u, v}     -> 1000
      [] OTHER               -> 4000

\* sklearn cosine_similarity([a], [b])[0][0]: a zero vector is left as it is
\* by the normalisation, and its dot product with anything is 0
CosineSimilarity(u, v) == IF u = "zero" \/ v = "zero" THEN 0 ELSE Cosine(u, v)

\* get_embedding: the provider's vector, or the zero vector when the call raises
GetEmbedding(text, ok) == IF ok THEN Embedding(text) ELSE "zero"

ExceedsThresholdOrEqual(sim) == sim >= Threshold

\* if sim > 0.90
ExceedsThreshold(sim) == sim > Threshold

AIMatchNamedAfterPoly(k, p, sim) ==
    [name       |-> ExtractPolymarketTitle(p),
     kalshi     |-> k,
     polymarket |-> p,
     similarity |-> Some(sim)]

\* the dict appended by match_markets_ai; sim is round(sim, 3)
AIMatch(k, p, sim) ==
    [name       |-> k.title[1],
     kalshi     |-> k,
     polymarket |-> p,
     similarity |-> Some(sim)]

Q_Rain    == PolyMarket(Some(TRainLower), None, Some(TSnow),
                        Some(<<Outcome(Some(No), Some(3330))>>))
Q_Title   == PolyMarket(Some(<<>>), Some(TRainUpper), None,
                        Some(<<Outcome(Some(No), Some(5000))>>))
Q_Unknown == PolyMarket(None, None, None, None)

AIKalshiPool == {K_RainQ, K_Rain, K_NoTitle}
AIPolyPool   == {Q_Rain, Q_Title, Q_Unknown}

\* which outcomes a get_embedding call may have
Outcomes == IF embed_failures < MaxEmbedFailures THEN {TRUE, FALSE} ELSE {TRUE}

\* history of the get_embedding calls
Recorded(text, vec) ==
    IF text \in DOMAIN embed_first
    THEN /\ embed_first' = embed_first
         /\ embed_stable' = (embed_stable /\ embed_first[text] = vec)
    ELSE /\ embed_first' = (embed_first @@ (text :> vec))
         /\ embed_stable' = embed_stable

FetchAI ==
    /\ pc = "fetch"
    /\ \E kresp \in Responses(AIKalshiPool), presp \in Responses(AIPolyPool) :
          /\ kalshi_data' = FetchMarkets(kresp)
          /\ poly_data' = FetchMarkets(presp)
    /\ matches' = <<>>
    /\ pc' = "ai_match"
    /\ UNCHANGED <<stake_amount, pair_idx, rows, placeholder, shown_before>>
    /\ UNCHANGED aiVars

\* for k in kalshi: k_title = k['title']; k_embed = get_embedding(k_title)
AIOuter ==
    /\ pc = "ai_match"
    /\ k_idx = 0 \/ p_idx = Len(poly_data)
    /\ k_idx < Len(kalshi_data)
    /\ LET k == kalshi_data[k_idx + 1]
       IN  IF k.title = None
           THEN /\ pc' = "aborted"
                /\ UNCHANGED aiVars
           ELSE /\ \E ok \in Outcomes :
                      /\ k_embed' = GetEmbedding(k.title[1], ok)
                      /\ embed_failures' = embed_failures + (IF ok THEN 0 ELSE 1)
                      /\ Recorded(k.title[1], k_embed')
                /\ k_idx' = k_idx + 1
                /\ p_idx' = 0
                /\ pc' = pc
    /\ UNCHANGED <<stake_amount, kalshi_data, poly_data, matches, pair_idx, rows,
                   placeholder, shown_before>>

\* for p in polymarkets: embed p_title, compare, append on sim > 0.90
AIInner ==
    /\ pc = "ai_match"
    /\ k_idx >= 1
    /\ p_idx < Len(poly_data)
    /\ LET k       == kalshi_data[k_idx]
           p       == poly_data[p_idx + 1]
           p_title == ExtractPolymarketTitle(p)
       IN  \E ok \in Outcomes :
              LET p_embed == GetEmbedding(p_title, ok)
                  sim     == CosineSimilarity(k_embed, p_embed)
              IN  /\ embed_failures' = embed_failures + (IF ok THEN 0 ELSE 1)
                  /\ Recorded(p_title, p_embed)
                  /\ IF ExceedsThreshold(sim)
                     THEN \E tie \in BOOLEAN :
                             matches' = Append(matches, AIMatch(k, p, Round(sim, MilliStep, tie)))
                     ELSE matches' = matches
    /\ p_idx' = p_idx + 1
    /\ UNCHANGED <<pc, stake_amount, kalshi_data, poly_data, pair_idx, rows, placeholder,
                   shown_before, k_idx, k_embed>>

\* return matches; rows = []
AIReturn ==
    /\ pc = "ai_match"
    /\ k_idx = Len(kalshi_data)
    /\ k_idx = 0 \/ p_idx = Len(poly_data)
    /\ rows' = RowsAtStart(rows)
    /\ pair_idx' = 0
    /\ pc' = "evaluate"
    /\ UNCHANGED <<stake_amount, kalshi_data, poly_data, matches, placeholder, shown_before>>
    /\ UNCHANGED aiVars

DisplayOnce == Render("done")

NextAI == FetchAI \/ AIOuter \/ AIInner \/ AIReturn \/ EvaluatePair \/ DisplayOnce

SpecAI == Init /\ [][NextAI]_vars

----------------------------------------------------------------------------
(* C9's other side: the matcher of section 4.4 with each title embedded     *)
(* once per pass.  cache maps a title to the vector its one get_embedding   *)
(* call returned.  It is no part of the scripts.                            *)

CachedMatchesAI(kalshi, polymarkets, cache, tie) ==
    LET np == Len(polymarkets)
        sim(n) == CosineSimilarity(cache[kalshi[((n - 1) \div np) + 1].title[1]],
                                   cache[ExtractPolymarketTitle(polymarkets[((n - 1) % np) + 1])])
        F[n \in 0..(Len(kalshi) * np)] ==
            IF n = 0 THEN <<>>
            ELSE IF sim(n) > Threshold
                 THEN Append(F[n - 1],
                             [name       |-> kalshi[((n - 1) \div np) + 1].title[1],
                              kalshi     |-> kalshi[((n - 1) \div np) + 1],
                              polymarket |-> polymarkets[((n - 1) % np) + 1],
                              similarity |-> Some(Round(sim(n), MilliStep, tie))])
                 ELSE F[n - 1]
    IN  F[Len(kalshi) * np]

----------------------------------------------------------------------------
(* C4 *)

\* the similarity of the two titles of a pair as the provider's vectors give it
TrueSimilarity(k, p) ==
    CosineSimilarity(Embedding(k.title[1]), Embedding(ExtractPolymarketTitle(p)))

\* C4 (as stated): the similarity score every emitted pair carries is > 0.90,
\* and no pair is emitted when every cross-similarity is <= 0.90.
C4_CarriedAboveThreshold ==
    /\ \A m \in 1..Len(matches) :
          matches[m].similarity # None => matches[m].similarity[1] > Threshold
    /\ (pc \in {"ai_match", "evaluate", "done"}
        /\ \A k \in 1..Len(kalshi_data), j \in 1..Len(poly_data) :
              kalshi_data[k].title # None =>
                  TrueSimilarity(kalshi_data[k], poly_data[j]) <= Threshold)
       => matches = <<>>

\* C4 (amended): every emitted pair was compared at a similarity > 0.90; the
\* score it carries is that similarity rounded to 3 decimals, which is
\* >= 0.90 and can be exactly 0.90; no pair is emitted when every
\* cross-similarity is <= 0.90.
C4_ComparedAboveThreshold ==
    /\ \A m \in 1..Len(matches) :
          matches[m].similarity # None =>
              LET raw == TrueSimilarity(matches[m].kalshi, matches[m].polymarket)
              IN  /\ raw > Threshold
                  /\ IsRounded(matches[m].similarity[1], raw, MilliStep)
                  /\ matches[m].similarity[1] >= Threshold
    /\ (pc \in {"ai_match", "evaluate", "done"}
        /\ \A k \in 1..Len(kalshi_data), j \in 1..Len(poly_data) :
              kalshi_data[k].title # None =>
                  TrueSimilarity(kalshi_data[k], poly_data[j]) <= Threshold)
       => matches = <<>>

C4_Witness ==
    /\ pc = "done"
    /\ Len(matches) = 2
    /\ matches[1].similarity = Some(Threshold)
    /\ TrueSimilarity(matches[1].kalshi, matches[1].polymarket) > Threshold
    /\ matches[2].similarity[1] > Threshold

----------------------------------------------------------------------------
(* C9 *)

MatchReturned == pc \in {"evaluate", "done"}

\* C9 (as stated): embedding each title once per pass and reusing the vector
\* returns the same sequence of pairs as match_markets_ai, also when
\* embedding calls can fail.
C9_CachedSameOutput ==
    MatchReturned =>
        \E tie \in BOOLEAN :
            matches = CachedMatchesAI(kalshi_data, poly_data, embed_first, tie)

\* C9 (amended): embedding each title once per pass returns the same
\* sequence of pairs as match_markets_ai provided every get_embedding call
\* for one title returns the same vector during the pass (a title that fails
\* on one call and succeeds on another makes the two outputs differ).
C9_CachedSameOutputIfStable ==
    (MatchReturned /\ embed_stable) =>
        \E tie \in BOOLEAN :
            matches = CachedMatchesAI(kalshi_data, poly_data, embed_first, tie)

C9_Witness ==
    /\ pc = "done"
    /\ embed_stable
    /\ embed_failures = 2
    /\ Len(kalshi_data) = 2
    /\ Len(poly_data) = 2
    /\ Len(matches) = 2

====
